---- MODULE Spec2Model ----
(***************************************************************************)
(* The inspection-report aggregator of scripts/parse_inspection_errors.py: *)
(* the classifier, the record extractor, the aggregation loop of main, its *)
(* sort and the report writer.  Python strings are TLA+ strings, read      *)
(* character by character with SubSeq.                                     *)
(***************************************************************************)
EXTENDS Integers, Sequences, FiniteSets, Bags, TLC

(***************************************************************************)
(* Python str operations                                                   *)
(***************************************************************************)

\* The printable ASCII characters in code-point order: 32 (space) to 95, and 97 to
\* 126 (the grave accent, 96, cannot be written in a TLA+ string and is left out).
PrintableLow == " !\"#$%&'()*+,-./0123456789:;<=>?@ABCDEFGHIJKLMNOPQRSTUVWXYZ[\\]^_"

PrintableHigh == "abcdefghijklmnopqrstuvwxyz{|}~"

CharAt(s, i) == SubSeq(s, i, i)

\* chr(n)
Chr(n) == IF n < 96 THEN CharAt(PrintableLow, n - 31) ELSE CharAt(PrintableHigh, n - 96)

RECURSIVE OrdTableFrom(_)
OrdTableFrom(n) ==
    IF n = 126 THEN Chr(n) :> n
    ELSE IF n = 96 THEN OrdTableFrom(n + 1)
    ELSE (Chr(n) :> n) @@ OrdTableFrom(n + 1)

\* ord(c) of a printable ASCII character, as a table from the character.
OrdTable == OrdTableFrom(32)

Ord(c) == OrdTable[c]

\* s.startswith(p)
StartsWith(s, p) == Len(s) >= Len(p) /\ SubSeq(s, 1, Len(p)) = p

\* s.endswith(p)
EndsWith(s, p) == Len(s) >= Len(p) /\ SubSeq(s, Len(s) - Len(p) + 1, Len(s)) = p

\* sub in s
Contains(s, sub) ==
    \E i \in 1..(Len(s) - Len(sub) + 1) : SubSeq(s, i, i + Len(sub) - 1) = sub

\* a < b on str: lexicographic by code point, a proper prefix first.  The strings
\* are compared at the first position where they differ, if there is one within both.
StrLess(a, b) ==
    IF a = b THEN FALSE
    ELSE LET shorter == IF Len(a) < Len(b) THEN Len(a) ELSE Len(b)
             differ == {i \in 1..shorter : CharAt(a, i) # CharAt(b, i)}
         IN  IF differ = {} THEN Len(a) < Len(b)
             ELSE LET first == CHOOSE i \in differ : \A j \in differ : i <= j
                  IN  Ord(CharAt(a, first)) < Ord(CharAt(b, first))

UpperChar(c) ==
    LET n == Ord(c) IN IF n >= 97 /\ n <= 122 THEN Chr(n - 32) ELSE c

LowerChar(c) ==
    LET n == Ord(c) IN IF n >= 65 /\ n <= 90 THEN Chr(n + 32) ELSE c

RECURSIVE Upper(_)
\* s.upper()
Upper(s) == IF Len(s) = 0 THEN "" ELSE UpperChar(CharAt(s, 1)) \o Upper(Tail(s))

RECURSIVE Lower(_)
\* s.lower()
Lower(s) == IF Len(s) = 0 THEN "" ELSE LowerChar(CharAt(s, 1)) \o Lower(Tail(s))

RECURSIVE Replace(_, _, _)
\* s.replace(old, new) for a non-empty old: leftmost occurrences, not overlapping.
Replace(s, old, new) ==
    LET found == {i \in 1..(Len(s) - Len(old) + 1) : SubSeq(s, i, i + Len(old) - 1) = old}
    IN  IF found = {} THEN s
        ELSE LET first == CHOOSE i \in found : \A j \in found : i <= j
             IN  SubSeq(s, 1, first - 1) \o new
                   \o Replace(SubSeq(s, first + Len(old), Len(s)), old, new)

\* The decimal digits int() reads, one row for each script, each row in the order of
\* the values 0 to 9: ASCII and the eighteen scripts whose digits a string here can
\* hold (code points 06F0, 07C0, 09E6, 0AE6, 0BE6, 0CE6, 0DE6, 0ED0, 1090, 17E0, 19D0,
\* 1A80, 1A90, 1BB0, A8D0, A9D0, A9F0, ABF0).  int() reads the digits of the other
\* scripts (0660, 0966, FF10 and so on) in the same way.
Digits ==
    <<"0123456789",
      "۰۱۲۳۴۵۶۷۸۹",
      "߀߁߂߃߄߅߆߇߈߉",
      "০১২৩৪৫৬৭৮৯",
      "૦૧૨૩૪૫૬૭૮૯",
      "௦௧௨௩௪௫௬௭௮௯",
      "೦೧೨೩೪೫೬೭೮೯",
      "෦෧෨෩෪෫෬෭෮෯",
      "໐໑໒໓໔໕໖໗໘໙",
      "႐႑႒႓႔႕႖႗႘႙",
      "០១២៣៤៥៦៧៨៩",
      "᧐᧑᧒᧓᧔᧕᧖᧗᧘᧙",
      "᪀᪁᪂᪃᪄᪅᪆᪇᪈᪉",
      "᪐᪑᪒᪓᪔᪕᪖᪗᪘᪙",
      "᮰᮱᮲᮳᮴᮵᮶᮷᮸᮹",
      "꣐꣑꣒꣓꣔꣕꣖꣗꣘꣙",
      "꧐꧑꧒꧓꧔꧕꧖꧗꧘꧙",
      "꧰꧱꧲꧳꧴꧵꧶꧷꧸꧹",
      "꯰꯱꯲꯳꯴꯵꯶꯷꯸꯹">>

RECURSIVE DigitRow(_, _)
\* The value of every digit of a row from a column on.
DigitRow(row, column) ==
    IF column > 10 THEN <<>>
    ELSE (CharAt(Digits[row], column) :> (column - 1)) @@ DigitRow(row, column + 1)

RECURSIVE DigitTableFrom(_)
\* The value of every digit of the rows from a row on.
DigitTableFrom(row) ==
    IF row > Len(Digits) THEN <<>> ELSE DigitRow(row, 1) @@ DigitTableFrom(row + 1)

DigitTable == DigitTableFrom(1)

IsDigit(c) == c \in DOMAIN DigitTable

DigitValue(c) == DigitTable[c]

RECURSIVE StrOfNat(_)
\* str(n) for n >= 0
StrOfNat(n) ==
    IF n < 10 THEN Chr(Ord("0") + n) ELSE StrOfNat(n \div 10) \o Chr(Ord("0") + (n % 10))

RECURSIVE ZeroPad(_, _)
ZeroPad(s, width) == IF Len(s) >= width THEN s ELSE ZeroPad("0" \o s, width)

\* f"{n:04d}" for n >= 0
Format04d(n) == ZeroPad(StrOfNat(n), 4)

\* The whitespace int() skips around a literal: space, tab, line feed, carriage
\* return, form feed, and the four written as the characters themselves in the second
\* line: vertical tab (0B), next line (U+0085), no-break space (U+00A0) and ogham
\* space mark (U+1680).  int() skips the spaces U+2000 to U+200A, U+2028, U+2029,
\* U+202F, U+205F and U+3000 in the same way; it does not skip the separators 1C to 1F.
Whitespace ==
    {" ", "\t", "\n", "\r", "\f",
     "", "", " ", " "}

RECURSIVE StripLeft(_)
StripLeft(s) ==
    IF Len(s) > 0 /\ CharAt(s, 1) \in Whitespace THEN StripLeft(Tail(s)) ELSE s

RECURSIVE StripRight(_)
StripRight(s) ==
    IF Len(s) > 0 /\ CharAt(s, Len(s)) \in Whitespace
    THEN StripRight(SubSeq(s, 1, Len(s) - 1))
    ELSE s

\* The digits of an int literal: digits with single underscores between them.
IsDigitRun(s) ==
    /\ Len(s) > 0
    /\ IsDigit(CharAt(s, 1))
    /\ IsDigit(CharAt(s, Len(s)))
    /\ \A i \in 1..Len(s) : IsDigit(CharAt(s, i)) \/ CharAt(s, i) = "_"
    /\ \A i \in 1..(Len(s) - 1) : ~(CharAt(s, i) = "_" /\ CharAt(s, i + 1) = "_")

RECURSIVE DigitRunValue(_, _)
DigitRunValue(s, acc) ==
    IF Len(s) = 0 THEN acc
    ELSE IF CharAt(s, 1) = "_" THEN DigitRunValue(Tail(s), acc)
         ELSE DigitRunValue(Tail(s), 10 * acc + DigitValue(CharAt(s, 1)))

IntBody(s) ==
    LET t == StripRight(StripLeft(s))
    IN  IF Len(t) > 0 /\ CharAt(t, 1) \in {"+", "-"} THEN Tail(t) ELSE t

\* sys.get_int_max_str_digits(): the most digits int() converts, the sign, the
\* underscores and the whitespace not counted, leading zeros counted.
int_max_str_digits == 4300

DigitCount(s) == Cardinality({i \in 1..Len(s) : IsDigit(CharAt(s, i))})

\* Whether int(s) returns; it raises ValueError otherwise.
IntOk(s) ==
    LET body == IntBody(s)
    IN  /\ IsDigitRun(body)
        /\ IF Len(body) <= int_max_str_digits THEN TRUE
           ELSE DigitCount(body) <= int_max_str_digits

\* int(s), where IntOk(s)
IntOf(s) ==
    LET t == StripRight(StripLeft(s))
        sign == IF Len(t) > 0 /\ CharAt(t, 1) \in {"+", "-"} THEN CharAt(t, 1) ELSE ""
        v == DigitRunValue(IF sign = "" THEN t ELSE Tail(t), 0)
    IN  IF sign = "-" THEN 0 - v ELSE v

(***************************************************************************)
(* categorize_problem_class                                                *)
(***************************************************************************)

categorize_python_first(problem_class_id) ==
    IF StartsWith(problem_class_id, "AndroidLint") THEN <<"android-lint", "medium">>
    ELSE IF problem_class_id \in {"Deprecation", "GrDeprecatedAPIUsage"}
    THEN <<"deprecation", "medium">>
    ELSE IF problem_class_id \in {"unused", "UnusedAssignment", "UnusedReturnValue"}
    THEN <<"unused-code", "low">>
    ELSE IF StartsWith(problem_class_id, "Py") THEN <<"python", "medium">>
    ELSE IF Contains(problem_class_id, "Error") \/ Contains(problem_class_id, "Exception")
    THEN <<"errors", "high">>
    ELSE IF problem_class_id \in {"NullableProblems", "NotNullFieldNotInitialized"}
    THEN <<"null-safety", "high">>
    ELSE IF problem_class_id \in {"ShellCheck"} THEN <<"shell-scripts", "medium">>
    ELSE IF StartsWith(problem_class_id, "Html") \/ StartsWith(problem_class_id, "Xml")
    THEN <<"markup", "low">>
    ELSE IF problem_class_id \in {"FieldCanBeLocal", "FieldMayBeFinal", "CanBeFinal"}
    THEN <<"code-quality", "low">>
    ELSE IF problem_class_id \in {"RedundantCast", "RedundantSuppression",
                                  "RedundantVisibilityModifier"}
    THEN <<"redundancy", "low">>
    ELSE <<"miscellaneous", "low">>

\* The (category, priority) pair of a problem-class identifier.
categorize_problem_class(problem_class_id) ==
    IF StartsWith(problem_class_id, "AndroidLint") THEN <<"android-lint", "medium">>
    ELSE IF problem_class_id \in {"Deprecation", "GrDeprecatedAPIUsage"}
    THEN <<"deprecation", "medium">>
    ELSE IF problem_class_id \in {"unused", "UnusedAssignment", "UnusedReturnValue"}
    THEN <<"unused-code", "low">>
    ELSE IF Contains(problem_class_id, "Error") \/ Contains(problem_class_id, "Exception")
    THEN <<"errors", "high">>
    ELSE IF problem_class_id \in {"NullableProblems", "NotNullFieldNotInitialized"}
    THEN <<"null-safety", "high">>
    ELSE IF StartsWith(problem_class_id, "Py") THEN <<"python", "medium">>
    ELSE IF problem_class_id \in {"ShellCheck"} THEN <<"shell-scripts", "medium">>
    ELSE IF StartsWith(problem_class_id, "Html") \/ StartsWith(problem_class_id, "Xml")
    THEN <<"markup", "low">>
    ELSE IF problem_class_id \in {"FieldCanBeLocal", "FieldMayBeFinal", "CanBeFinal"}
    THEN <<"code-quality", "low">>
    ELSE IF problem_class_id \in {"RedundantCast", "RedundantSuppression",
                                  "RedundantVisibilityModifier"}
    THEN <<"redundancy", "low">>
    ELSE <<"miscellaneous", "low">>

PriorityRankWithoutLow(priority) ==
    CASE priority = "critical" -> 0
      [] priority = "high" -> 1
      [] priority = "medium" -> 2
      [] OTHER -> 4

\* priority_order.get(priority, 4)
PriorityRank(priority) ==
    CASE priority = "critical" -> 0
      [] priority = "high" -> 1
      [] priority = "medium" -> 2
      [] priority = "low" -> 3
      [] OTHER -> 4

(***************************************************************************)
(* parse_inspection_file                                                   *)
(***************************************************************************)

\* An optional value: None (Python's None, an absent element or attribute) or Some(v).
None == <<>>

Some(v) == <<v>>

\* problem.findtext(tag, default): the child's text, '' for a child without text
\* (written Some("")), the default when there is no such child.
findtext(child, default) == IF child = None THEN default ELSE child[1]

\* element.get(attribute, default)
get(attribute, default) == IF attribute = None THEN default ELSE attribute[1]

\* The value of hint.get('value', '') for each hint of the hints element.
HintValues(hints_elem) ==
    IF hints_elem = None THEN <<>>
    ELSE [i \in 1..Len(hints_elem[1]) |-> get(hints_elem[1][i], "")]

ProblemDataLanguageEmpty(problem) ==
    LET problem_class == problem.problem_class
        problem_class_id ==
            IF problem_class # None THEN get(problem_class[1].id, "unknown") ELSE "unknown"
        classified == categorize_problem_class(problem_class_id)
    IN  [file |-> findtext(problem.file, ""),
         line |-> findtext(problem.line, "0"),
         column |-> findtext(problem.column, "0"),
         module |-> findtext(problem.module, ""),
         package |-> findtext(problem.package, ""),
         language |-> findtext(problem.language, ""),
         offset |-> findtext(problem.offset, "0"),
         length |-> findtext(problem.length, "0"),
         highlighted_element |-> findtext(problem.highlighted_element, ""),
         description |-> findtext(problem.description, ""),
         problem_class_id |-> problem_class_id,
         severity |->
            IF problem_class # None THEN get(problem_class[1].severity, "WARNING")
            ELSE "WARNING",
         problem_class_text |->
            IF problem_class # None THEN findtext(problem_class[1].text, "") ELSE "",
         hints |-> HintValues(problem.hints),
         category |-> classified[1],
         priority |-> classified[2]]

\* The problem_data dict built from one <problem> element.
ProblemData(problem) ==
    LET problem_class == problem.problem_class
        problem_class_id ==
            IF problem_class # None THEN get(problem_class[1].id, "unknown") ELSE "unknown"
        classified == categorize_problem_class(problem_class_id)
    IN  [file |-> findtext(problem.file, ""),
         line |-> findtext(problem.line, "0"),
         column |-> findtext(problem.column, "0"),
         module |-> findtext(problem.module, ""),
         package |-> findtext(problem.package, ""),
         language |-> findtext(problem.language, "UNKNOWN"),
         offset |-> findtext(problem.offset, "0"),
         length |-> findtext(problem.length, "0"),
         highlighted_element |-> findtext(problem.highlighted_element, ""),
         description |-> findtext(problem.description, ""),
         problem_class_id |-> problem_class_id,
         severity |->
            IF problem_class # None THEN get(problem_class[1].severity, "WARNING")
            ELSE "WARNING",
         problem_class_text |->
            IF problem_class # None THEN findtext(problem_class[1].text, "") ELSE "",
         hints |-> HintValues(problem.hints),
         category |-> classified[1],
         priority |-> classified[2]]

\* parse_inspection_file on a file: Some(list) when it returns the list, None when it
\* raises.  A file is [wellformed, root, problems]: whether ET.parse accepts it, its
\* root tag, and the <problem> children of the root in document order.  ET.parse
\* raises before the first append and the except clause prints the error: the list
\* is returned empty when the print returns, and the exception of the print leaves
\* the function when the print raises (stdout closed, or unable to encode the text).
parse_inspection_file(doc, print_returns) ==
    IF ~doc.wellformed THEN (IF print_returns THEN Some(<<>>) ELSE None)
    ELSE IF doc.root = "problems"
    THEN Some([i \in 1..Len(doc.problems) |-> ProblemData(doc.problems[i])])
    ELSE Some(<<>>)

(***************************************************************************)
(* main: tallies, sort, report                                             *)
(***************************************************************************)

RECURSIVE ExtendDistinct(_, _)
ExtendDistinct(list, items) ==
    IF Len(items) = 0 THEN list
    ELSE IF \E i \in 1..Len(list) : list[i] = Head(items)
         THEN ExtendDistinct(list, Tail(items))
         ELSE ExtendDistinct(Append(list, Head(items)), Tail(items))

\* list.extend(items)
Extend(list, items) == list \o items

\* d[k] += 1 on a defaultdict(int), kept as the list of <<key, count>> in insertion
\* order (the order dict.items() yields).
DictIncr(d, k) ==
    IF \E i \in 1..Len(d) : d[i][1] = k
    THEN [i \in 1..Len(d) |-> IF d[i][1] = k THEN <<k, d[i][2] + 1>> ELSE d[i]]
    ELSE Append(d, <<k, 1>>)

TallyFirstOnly(d, problems, field) ==
    IF Len(problems) = 0 THEN d ELSE DictIncr(d, Head(problems)[field])

RECURSIVE Tally(_, _, _)
\* The counts d after d[problem[field]] += 1 for each problem of the list.
Tally(d, problems, field) ==
    IF Len(problems) = 0 THEN d
    ELSE Tally(DictIncr(d, Head(problems)[field]), Tail(problems), field)

\* The key with the file before the category.
SortKeyFileFirst(p) == <<PriorityRank(p.priority), p.file, p.category, IntOf(p.line)>>

\* The sort key of a problem; int(p['line']) is taken where IntOk holds.
SortKey(p) == <<PriorityRank(p.priority), p.category, p.file, IntOf(p.line)>>

\* a <= b on the key tuples
KeyLessOrEqual(a, b) ==
    \/ a[1] < b[1]
    \/ /\ a[1] = b[1]
       /\ \/ StrLess(a[2], b[2])
          \/ /\ a[2] = b[2]
             /\ \/ StrLess(a[3], b[3])
                \/ a[3] = b[3] /\ a[4] <= b[4]

\* a < b on the key tuples
KeyLess(a, b) ==
    \/ a[1] < b[1]
    \/ /\ a[1] = b[1]
       /\ \/ StrLess(a[2], b[2])
          \/ /\ a[2] = b[2]
             /\ \/ StrLess(a[3], b[3])
                \/ a[3] = b[3] /\ a[4] < b[4]

RECURSIVE InsertBeforeEqual(_, _)
InsertBeforeEqual(sorted, p) ==
    IF Len(sorted) = 0 THEN <<p>>
    ELSE IF ~KeyLess(SortKey(Head(sorted)), SortKey(p)) THEN <<p>> \o sorted
         ELSE <<Head(sorted)>> \o InsertBeforeEqual(Tail(sorted), p)

RECURSIVE InsertStable(_, _)
\* p put into a sorted list after every element whose key is not greater.
InsertStable(sorted, p) ==
    IF Len(sorted) = 0 THEN <<p>>
    ELSE IF KeyLess(SortKey(p), SortKey(Head(sorted))) THEN <<p>> \o sorted
         ELSE <<Head(sorted)>> \o InsertStable(Tail(sorted), p)

RECURSIVE SortFrom(_, _)
SortFrom(sorted, rest) ==
    IF Len(rest) = 0 THEN sorted
    ELSE SortFrom(InsertStable(sorted, Head(rest)), Tail(rest))

\* all_problems after all_problems.sort(key=...): list.sort is stable.
SortedProblems(problems) == SortFrom(<<>>, problems)

\* Whether the key function returns for every problem; list.sort raises the
\* ValueError of int() otherwise.
SortKeysOk(problems) == \A i \in 1..Len(problems) : IntOk(problems[i].line)

RECURSIVE InsertItem(_, _)
InsertItem(sorted, item) ==
    IF Len(sorted) = 0 THEN <<item>>
    ELSE IF StrLess(item[1], Head(sorted)[1]) THEN <<item>> \o sorted
         ELSE <<Head(sorted)>> \o InsertItem(Tail(sorted), item)

RECURSIVE SortedItems(_)
\* sorted(d.items()): the keys of a dict are distinct, so the key decides.
SortedItems(d) ==
    IF Len(d) = 0 THEN <<>> ELSE InsertItem(SortedItems(SubSeq(d, 1, Len(d) - 1)), d[Len(d)])

\* The file path as emitted.
CleanPath(file) == Replace(Replace(file, "file://$USER_HOME$/", "~/"), "\\", "/")

PerCategoryIndex(problems, i) ==
    Cardinality({j \in 1..(i - 1) : problems[j].category = problems[i].category})

\* idx of enumerate(all_problems) for the i-th problem (i from 1).
EnumerateIndex(problems, i) == i - 1

\* error_id
ErrorId(problems, i) ==
    "ERR-" \o Upper(problems[i].category) \o "-" \o Format04d(EnumerateIndex(problems, i))

\* The <error> element of the i-th problem.
ErrorElement(problems, i) ==
    LET problem == problems[i]
    IN  [id |-> ErrorId(problems, i),
         category |-> problem.category,
         severity |-> problem.severity,
         priority |-> problem.priority,
         file |-> CleanPath(problem.file),
         line |-> problem.line,
         column |-> problem.column,
         problem_class_id |-> problem.problem_class_id,
         problem_class_text |-> problem.problem_class_text,
         description |-> problem.description,
         highlighted_element |-> problem.highlighted_element,
         language |-> problem.language,
         module |-> problem.module,
         package |-> problem.package,
         hints |-> IF Len(problem.hints) > 0 THEN Some(problem.hints) ELSE None]

ErrorsDroppingFirst(problems) ==
    [i \in 1..(Len(problems) - 1) |-> ErrorElement(problems, i + 1)]

\* The children of <errors>.
ErrorElements(problems) == [i \in 1..Len(problems) |-> ErrorElement(problems, i)]

\* The children of <severity-summary>: one per item of severity_counts.
SeveritySummary(counts) ==
    [i \in 1..Len(counts) |-> [tag |-> Lower(counts[i][1]), text |-> StrOfNat(counts[i][2])]]

\* The children of <category-summary>.
CategorySummary(counts) ==
    LET items == SortedItems(counts)
    IN  [i \in 1..Len(items) |-> [name |-> items[i][1], text |-> StrOfNat(items[i][2])]]

\* The <project-errors> document (scan-date, the clock's reading, is left out).
Report(problems, categories, severities, files) ==
    [project_name |-> "teacher-dashboard-flutter-firebase",
     total_errors |-> StrOfNat(Len(problems)),
     files_analyzed |-> StrOfNat(files),
     severity_summary |-> SeveritySummary(severities),
     category_summary |-> CategorySummary(categories),
     errors |-> ErrorElements(problems)]

VARIABLES
    arg,              \* a pure function under check: its argument
    ret,              \* ... and its result, None before the call
    pc,               \* main: "start", "scan", "write", "print", "done"; or the
                      \* statement that raised: "listdir_raised", "parse_raised",
                      \* "sort_raised", "write_raised", "summary_raised"
    names,            \* the list os.listdir(INSPECTION_DIR) returned
    opened,           \* the name of the file ET.parse holds open, None when none
    listing,          \* the entries the loop has iterated so far, with what was read
    all_problems,
    category_counts,
    severity_counts,
    priority_counts,
    file_count,
    output,           \* what OUTPUT_FILE holds of this run: None while nothing, the
                      \* document once tree.write has returned, the beginning of the
                      \* document when tree.write has raised partway
    service_users,    \* Zep: the number of users the service holds with the project id
    setup_pc,         \* setup_project_user: "idle", "get", "add", "returned", "raised"
    user,             \* setup_project_user: its local user, None while unbound
    requests,         \* the requests sent to client.user, oldest first
    calls             \* the calls of setup_project_user started

fn_vars == <<arg, ret>>

main_vars ==
    <<pc, names, opened, listing, all_problems, category_counts, severity_counts, priority_counts,
      file_count, output>>

zep_vars == <<service_users, setup_pc, user, requests, calls>>

vars == <<arg, ret, pc, names, opened, listing, all_problems, category_counts, severity_counts,
          priority_counts, file_count, output, service_users, setup_pc, user, requests,
          calls>>

\* The state of main at its first statement.
MainStart ==
    /\ pc = "start"
    /\ names = <<>>
    /\ opened = None
    /\ listing = <<>>
    /\ all_problems = <<>>
    /\ category_counts = <<>>
    /\ severity_counts = <<>>
    /\ priority_counts = <<>>
    /\ file_count = 0
    /\ output = None

\* No call of setup_project_user has been made; the service holds no project user.
ZepIdle ==
    /\ service_users = 0
    /\ setup_pc = "idle"
    /\ user = None
    /\ requests = <<>>
    /\ calls = 0

FnIdle == arg = None /\ ret = None /\ ZepIdle

(***************************************************************************)
(* Inputs                                                                  *)
(***************************************************************************)

\* A <problem> element with the children a claim is about; the rest are absent.
Element(file, line, description, problem_class) ==
    [file |-> file, line |-> line, column |-> None, module |-> None, package |-> None,
     language |-> None, offset |-> None, length |-> None, highlighted_element |-> None,
     description |-> description, problem_class |-> problem_class, hints |-> None]

ProblemClass(id, severity) == Some([id |-> Some(id), severity |-> severity, text |-> Some("rule")])

NullableLine10 ==
    Element(Some("lib/b.dart"), Some("10"), Some("d1"),
            ProblemClass("NullableProblems", Some("WARNING")))

\* The same sort key as NullableLine10, another severity spelling and description.
NullableLine10Again ==
    Element(Some("lib/b.dart"), Some("10"), Some("d2"),
            ProblemClass("NullableProblems", Some("warning")))

\* Before NullableLine10 as a number, after it as text; int() skips the line feed
\* that ends the text of its <line>.
NullableLine9 ==
    Element(Some("lib/b.dart"), Some("9\n"), Some("d1"),
            ProblemClass("NullableProblems", Some("WARNING")))

\* Before the lib/b.dart findings by its file as read, after them by its line; the
\* writer emits its file as ~/a.dart, which stands after lib/b.dart.
NullableOtherFile ==
    Element(Some("file://$USER_HOME$/a.dart"), Some("20"), Some("d1"),
            ProblemClass("NullableProblems", Some("WARNING")))

\* A problem_class without severity, a path with the placeholder and a backslash.
AndroidLine5 ==
    Element(Some("file://$USER_HOME$/app\\res.xml"), Some("5"), Some("d3"),
            ProblemClass("AndroidLintUnusedResources", None))

\* The minimal finding: a description and nothing else.
OnlyDescription == Element(None, None, Some("d4"), None)

\* A <line> element without text.
EmptyLine ==
    Element(Some("lib/a.dart"), Some(""), Some("d5"), ProblemClass("PyException", Some("ERROR")))

\* The elements of the reports of a run: their lines are ones int() accepts.
SampleElements ==
    {NullableLine10, NullableLine10Again, NullableLine9, NullableOtherFile, AndroidLine5}

\* The most directory entries of a run, and the most <problem> elements in them.
MaxEntries == 2

MaxFindings == 3

ReportFile(problems) == [wellformed |-> TRUE, root |-> "problems", problems |-> problems]

\* A file ET.parse rejects after one <problem> element.
MalformedFile == [wellformed |-> FALSE, root |-> "problems", problems |-> <<NullableLine10>>]

\* A well-formed file that is no inspection report.
OtherRootFile == [wellformed |-> TRUE, root |-> "inspections", problems |-> <<AndroidLine5>>]

\* A report whose one finding has a line int() rejects: the sort key is computed for
\* every finding before any is compared, so where the finding stands is of no account.
UnsortableFile == ReportFile(<<EmptyLine>>)

\* The content of an entry whose name does not end in '.xml': a report all the same.
NotXmlFile == ReportFile(<<NullableLine10>>)

\* An entry that open() refuses inside ET.parse: a directory, a link to a file that
\* is gone, a file the process may not read.  ET.parse raises and nothing is read.
Unopenable == [wellformed |-> FALSE, root |-> "", problems |-> <<>>]

Files(most) ==
    {ReportFile(problems) :
        problems \in UNION {[1..n -> SampleElements] : n \in 0..most}}
      \cup (IF most > 0 THEN {MalformedFile, OtherRootFile, UnsortableFile} ELSE {})

Extensions == {".xml", ".txt"}

\* The name of the n-th entry: the names of a directory are distinct.
EntryName(n, extension) == "report" \o StrOfNat(n) \o extension

RECURSIVE ElementCount(_)
\* The number of <problem> elements in the files that the loop has opened: the
\* entries whose name ends in '.xml'.
ElementCount(entries) ==
    IF Len(entries) = 0 THEN 0
    ELSE (IF EndsWith(Head(entries).name, ".xml") THEN Len(Head(entries).doc.problems) ELSE 0)
         + ElementCount(Tail(entries))

(***************************************************************************)
(* The steps of main                                                       *)
(***************************************************************************)

\* The directory listings of a run: the names of at most MaxEntries entries.
Listings ==
    UNION {{[i \in 1..n |-> EntryName(i, extensions[i])] : extensions \in [1..n -> Extensions]} :
              n \in 0..MaxEntries}

\* os.listdir(INSPECTION_DIR) returns the names of the entries, and the loop starts.
ListDirectory ==
    /\ pc = "start"
    /\ names' \in Listings
    /\ pc' = "scan"
    /\ UNCHANGED <<opened, listing, all_problems, category_counts, severity_counts,
                   priority_counts, file_count, output, arg, ret, zep_vars>>

\* os.listdir(INSPECTION_DIR) raises FileNotFoundError: the directory is missing.
\* Nothing catches it: nothing is written and nothing is printed.
ListdirRaises ==
    /\ pc = "start"
    /\ pc' = "listdir_raised"
    /\ UNCHANGED <<names, opened, listing, all_problems, category_counts, severity_counts,
                   priority_counts, file_count, output, arg, ret, zep_vars>>

\* The loop is at an entry: the next name of the listing, no file open.
AtEntry == pc = "scan" /\ opened = None /\ Len(listing) < Len(names)

filename == names[Len(listing) + 1]

\* The loop passes over an entry whose name does not end in '.xml'.
SkipEntry ==
    /\ AtEntry
    /\ ~EndsWith(filename, ".xml")
    /\ listing' = Append(listing, [name |-> filename, doc |-> NotXmlFile])
    /\ UNCHANGED <<pc, names, opened, all_problems, category_counts, severity_counts,
                   priority_counts, file_count, output, arg, ret, zep_vars>>

\* parse_inspection_file is called on an '.xml' entry and ET.parse opens the file.
OpenEntry ==
    /\ AtEntry
    /\ EndsWith(filename, ".xml")
    /\ opened' = Some(filename)
    /\ UNCHANGED <<pc, names, listing, all_problems, category_counts, severity_counts,
                   priority_counts, file_count, output, arg, ret, zep_vars>>

\* parse_inspection_file is called on an '.xml' entry and open() refuses the entry:
\* ET.parse raises with no file open, the except clause prints the error and the
\* empty list is returned; the entry is counted and the loop goes on.
OpenFails ==
    /\ AtEntry
    /\ EndsWith(filename, ".xml")
    /\ LET problems == parse_inspection_file(Unopenable, TRUE)[1]
       IN  /\ listing' = Append(listing, [name |-> filename, doc |-> Unopenable])
           /\ all_problems' = Extend(all_problems, problems)
           /\ file_count' = file_count + 1
           /\ category_counts' = Tally(category_counts, problems, "category")
           /\ severity_counts' = Tally(severity_counts, problems, "severity")
           /\ priority_counts' = Tally(priority_counts, problems, "priority")
    /\ UNCHANGED <<pc, names, opened, output, arg, ret, zep_vars>>

\* open() refuses the entry and the print of the except clause raises: the exception
\* leaves parse_inspection_file and main, before the entry is counted.
OpenFailsPrintRaises ==
    /\ AtEntry
    /\ EndsWith(filename, ".xml")
    /\ parse_inspection_file(Unopenable, FALSE) = None
    /\ listing' = Append(listing, [name |-> filename, doc |-> Unopenable])
    /\ pc' = "parse_raised"
    /\ UNCHANGED <<names, opened, all_problems, category_counts, severity_counts,
                   priority_counts, file_count, output, arg, ret, zep_vars>>

\* The most <problem> elements the file that is open holds: what the files opened
\* before it have left of MaxFindings.
Left == MaxFindings - ElementCount(listing)

\* The rest of the iteration: ET.parse reads the file to its end and closes it,
\* parse_inspection_file returns its list (having printed the error of a file
\* ET.parse rejects), and the list is appended, the file counted, the problems tallied.
ParseEntry ==
    /\ pc = "scan"
    /\ opened # None
    /\ \E doc \in Files(Left) :
        LET problems == parse_inspection_file(doc, TRUE)[1]
        IN  /\ listing' = Append(listing, [name |-> filename, doc |-> doc])
            /\ all_problems' = Extend(all_problems, problems)
            /\ file_count' = file_count + 1
            /\ category_counts' = Tally(category_counts, problems, "category")
            /\ severity_counts' = Tally(severity_counts, problems, "severity")
            /\ priority_counts' = Tally(priority_counts, problems, "priority")
    /\ opened' = None
    /\ UNCHANGED <<pc, names, output, arg, ret, zep_vars>>

\* ET.parse rejects the file and closes it, and the print of the except clause
\* raises: the exception leaves parse_inspection_file and main, before the file is
\* counted.
ParseRaises ==
    /\ pc = "scan"
    /\ opened # None
    /\ \E doc \in Files(Left) :
        /\ parse_inspection_file(doc, FALSE) = None
        /\ listing' = Append(listing, [name |-> filename, doc |-> doc])
    /\ opened' = None
    /\ pc' = "parse_raised"
    /\ UNCHANGED <<names, all_problems, category_counts, severity_counts, priority_counts,
                   file_count, output, arg, ret, zep_vars>>

\* The loop has ended: every name of the listing has been iterated.
LoopEnded == pc = "scan" /\ opened = None /\ Len(listing) = Len(names)

\* The sort placed before the loop has ended.
SortBeforeLoopEnds ==
    /\ pc = "scan"
    /\ opened = None
    /\ SortKeysOk(all_problems)
    /\ all_problems' = SortedProblems(all_problems)
    /\ pc' = "write"
    /\ UNCHANGED <<names, opened, listing, category_counts, severity_counts,
                   priority_counts, file_count, output, arg, ret, zep_vars>>

\* The loop has ended and the sort returns.
SortProblems ==
    /\ LoopEnded
    /\ SortKeysOk(all_problems)
    /\ all_problems' = SortedProblems(all_problems)
    /\ pc' = "write"
    /\ UNCHANGED <<names, opened, listing, category_counts, severity_counts,
                   priority_counts, file_count, output, arg, ret, zep_vars>>

\* The loop has ended and the sort raises: int() rejects the line of a problem.
SortRaises ==
    /\ LoopEnded
    /\ ~SortKeysOk(all_problems)
    /\ pc' = "sort_raised"
    /\ UNCHANGED <<names, opened, listing, all_problems, category_counts, severity_counts,
                   priority_counts, file_count, output, arg, ret, zep_vars>>

\* The document is built and tree.write returns.
WriteOutput ==
    /\ pc = "write"
    /\ output' = Some(Report(all_problems, category_counts, severity_counts, file_count))
    /\ pc' = "print"
    /\ UNCHANGED <<names, opened, listing, all_problems, category_counts, severity_counts,
                   priority_counts, file_count, arg, ret, zep_vars>>

\* What OUTPUT_FILE can hold when tree.write has raised after opening it: the file
\* was emptied by the open and the document is written front to back, so it holds a
\* beginning of the document that stops before the closing tag of the root: nothing
\* or a part of the metadata, or the metadata and the <error> elements written whole,
\* the first n of them.
CutShort(document) ==
    {[metadata_whole |-> FALSE, errors |-> <<>>]}
      \cup {[metadata_whole |-> TRUE, errors |-> SubSeq(document.errors, 1, n)] :
                n \in 0..Len(document.errors)}

\* tree.write raises: OUTPUT_FILE cannot be opened for writing and is left as it was,
\* or the write fails partway (the disk is full, a size limit is met) and the file is
\* left cut short.
WriteRaises ==
    /\ pc = "write"
    /\ output' \in {output}
          \cup {Some(cut) :
                   cut \in CutShort(Report(all_problems, category_counts, severity_counts,
                                           file_count))}
    /\ pc' = "write_raised"
    /\ UNCHANGED <<names, opened, listing, all_problems, category_counts, severity_counts,
                   priority_counts, file_count, arg, ret, zep_vars>>

\* OUTPUT_FILE holds the whole document: tree.write has returned.
Written == output # None /\ "total_errors" \in DOMAIN output[1]

\* The summary is printed and main returns.
PrintSummary ==
    /\ pc = "print"
    /\ pc' = "done"
    /\ UNCHANGED <<names, opened, listing, all_problems, category_counts, severity_counts,
                   priority_counts, file_count, output, arg, ret, zep_vars>>

\* One of the prints of the summary raises: the output is written, main does not
\* return.
SummaryRaises ==
    /\ pc = "print"
    /\ pc' = "summary_raised"
    /\ UNCHANGED <<names, opened, listing, all_problems, category_counts, severity_counts,
                   priority_counts, file_count, output, arg, ret, zep_vars>>

Init == MainStart /\ FnIdle

Next ==
    \/ ListDirectory
    \/ ListdirRaises
    \/ SkipEntry
    \/ OpenEntry
    \/ OpenFails
    \/ OpenFailsPrintRaises
    \/ ParseEntry
    \/ ParseRaises
    \/ SortProblems
    \/ SortRaises
    \/ WriteOutput
    \/ WriteRaises
    \/ PrintSummary
    \/ SummaryRaises

Spec == Init /\ [][Next]_vars

\* Where main has a next statement, that is where Next is enabled: the listing
\* returns or raises, the loop takes its next entry or ends in the sort, the sort
\* returning or raising, and the write and the print follow.  At the other positions
\* main has returned or an exception has left it.
Running == pc \in {"start", "scan", "write", "print"}

(***************************************************************************)
(* The classifier alone, over identifiers built from the words of its rules *)
(***************************************************************************)

MaxIdParts == 2

IdFragments ==
    {"AndroidLint", "Deprecation", "GrDeprecatedAPIUsage", "unused", "UnusedAssignment",
     "UnusedReturnValue", "UnusedResources", "Error", "Exception", "Err", "or", "error",
     "NullableProblems", "NotNullFieldNotInitialized", "Py", "ShellCheck", "Html", "Xml",
     "FieldCanBeLocal", "FieldMayBeFinal", "CanBeFinal", "RedundantCast",
     "RedundantSuppression", "RedundantVisibilityModifier", "Foo", "BarBaz", "unknown"}

RECURSIVE Join(_)
Join(parts) == IF Len(parts) = 0 THEN "" ELSE Head(parts) \o Join(Tail(parts))

Identifiers ==
    {Join(parts) : parts \in UNION {[1..n -> IdFragments] : n \in 0..MaxIdParts}}

InitClassify == MainStart /\ ZepIdle /\ arg \in {Some(id) : id \in Identifiers} /\ ret = None

\* A call of categorize_problem_class; ret is <<category, priority, rank in the sort>>.
Classify ==
    /\ ret = None
    /\ LET classified == categorize_problem_class(arg[1])
       IN  ret' = Some(<<classified[1], classified[2], PriorityRank(classified[2])>>)
    /\ UNCHANGED <<arg, main_vars, zep_vars>>

SpecClassify == InitClassify /\ [][Classify]_vars

(***************************************************************************)
(* The extraction of one <problem> element, over the shapes it can have    *)
(***************************************************************************)

Optional(text) == {None, Some(text)}

ProblemClassShapes ==
    {None,
     Some([id |-> None, severity |-> None, text |-> None]),
     Some([id |-> Some("NullableProblems"), severity |-> None, text |-> Some("rule")]),
     Some([id |-> None, severity |-> Some("ERROR"), text |-> None]),
     Some([id |-> Some("RedundantCast"), severity |-> Some("INFO"), text |-> Some("rule")])}

HintsShapes == {None, Some(<<>>), Some(<<Some("h1"), None>>)}

\* Every combination of present and absent children.
ElementShapes ==
    [file : Optional("lib/a.dart"), line : Optional("12"), column : Optional("3"),
     module : Optional("app"), package : Optional("pkg"), language : Optional("Dart"),
     offset : {None}, length : Optional("4"),
     highlighted_element : Optional("x"), description : Optional("d"),
     problem_class : ProblemClassShapes, hints : HintsShapes]

InitExtract == MainStart /\ ZepIdle /\ arg \in {Some(problem) : problem \in ElementShapes} /\ ret = None

\* The body of the loop over root.findall('problem') for one element.
ExtractProblem ==
    /\ ret = None
    /\ ret' = Some(ProblemData(arg[1]))
    /\ UNCHANGED <<arg, main_vars, zep_vars>>

SpecExtract == InitExtract /\ [][ExtractProblem]_vars

(***************************************************************************)
(* The path rewrite of the writer, over paths built from the two tokens    *)
(***************************************************************************)

MaxPathParts == 3

PathFragments ==
    {"file://$USER_HOME$/", "file:/", "$USER_HOME$/", "\\", "/", "~/", "C:", "lib"}

Paths == {Join(parts) : parts \in UNION {[1..n -> PathFragments] : n \in 0..MaxPathParts}}

InitPath == MainStart /\ ZepIdle /\ arg \in {Some(path) : path \in Paths} /\ ret = None

\* The clean-up of one file path for emission.
CleanFilePath ==
    /\ ret = None
    /\ ret' = Some(CleanPath(arg[1]))
    /\ UNCHANGED <<arg, main_vars, zep_vars>>

SpecPath == InitPath /\ [][CleanFilePath]_vars

(***************************************************************************)
(* The sort alone, applied twice to a list of extracted findings           *)
(***************************************************************************)

RECURSIVE ExtractAll(_)
\* The records of a sequence of <problem> elements.
ExtractAll(elements) ==
    IF Len(elements) = 0 THEN <<>>
    ELSE <<ProblemData(Head(elements))>> \o ExtractAll(Tail(elements))

\* A finding of the priority of the null-safety ones and of another category, in a
\* file whose name lies between theirs.
ErrorMidFile ==
    Element(Some("lib/aa.dart"), Some("7"), Some("d6"), ProblemClass("TypeError", Some("ERROR")))

\* The line of NullableLine9 in Extended Arabic-Indic digits (U+06F9): the same key,
\* another text.
NullableLineArabic9 ==
    Element(Some("lib/b.dart"), Some("۹"), Some("d1"),
            ProblemClass("NullableProblems", Some("WARNING")))

SortSamples == SampleElements \cup {OnlyDescription, ErrorMidFile, NullableLineArabic9}

SortInputs ==
    {ExtractAll(elements) :
        elements \in UNION {[1..n -> SortSamples] : n \in 0..MaxFindings}}

InitSort == MainStart /\ ZepIdle /\ arg \in {Some(problems) : problems \in SortInputs} /\ ret = None

\* all_problems.sort(key=...) on the list in arg; ret lists the list after each sort.
SortList ==
    /\ ret = None
    /\ SortKeysOk(arg[1])
    /\ ret' = Some(<<SortedProblems(arg[1])>>)
    /\ UNCHANGED <<arg, main_vars, zep_vars>>

\* The same sort applied to its own result.
SortAgain ==
    /\ ret # None
    /\ Len(ret[1]) = 1
    /\ SortKeysOk(ret[1][1])
    /\ ret' = Some(Append(ret[1], SortedProblems(ret[1][1])))
    /\ UNCHANGED <<arg, main_vars, zep_vars>>

NextSort == SortList \/ SortAgain

SpecSort == InitSort /\ [][NextSort]_vars

(***************************************************************************)
(* DevContextManager.setup_project_user of scripts/zep/zep_dev_context.py   *)
(* and the user service of Zep Cloud behind client.user.  The service is    *)
(* not part of the repository: a request reaches it or fails on the way, a  *)
(* get of an absent user raises, an add of a present user is refused.       *)
(***************************************************************************)

\* self.project_user_id
project_user_id == "teacher-dashboard-flutter"

\* The most calls of setup_project_user in a run.
MaxCalls == 3

\* A request of the current call, with whether the project user was there when it was
\* sent and how it came back.
Request(op, outcome) ==
    [call |-> calls, op |-> op, existed |-> service_users > 0, outcome |-> outcome]

main_idle == <<arg, ret, main_vars>>

\* The service as the first call finds it: with the project user or without.
InitZep ==
    /\ MainStart
    /\ arg = None /\ ret = None
    /\ service_users \in {0, 1}
    /\ setup_pc = "idle"
    /\ user = None
    /\ requests = <<>>
    /\ calls = 0

\* setup_project_user is called: the try block is entered.
CallSetup ==
    /\ setup_pc \in {"idle", "returned", "raised"}
    /\ calls < MaxCalls
    /\ calls' = calls + 1
    /\ setup_pc' = "get"
    /\ user' = None
    /\ UNCHANGED <<service_users, requests, main_idle>>

\* client.user.get returns the user: the success line is printed, user is returned.
GetReturns ==
    /\ setup_pc = "get"
    /\ service_users > 0
    /\ requests' = Append(requests, Request("get", "ok"))
    /\ user' = Some(project_user_id)
    /\ setup_pc' = "returned"
    /\ UNCHANGED <<service_users, calls, main_idle>>

\* client.user.get returns the user and the print of the success line raises: the
\* bare except takes the exception of the print, and the add follows.
GetReturnsPrintRaises ==
    /\ setup_pc = "get"
    /\ service_users > 0
    /\ requests' = Append(requests, Request("get", "ok"))
    /\ user' = Some(project_user_id)
    /\ setup_pc' = "add"
    /\ UNCHANGED <<service_users, calls, main_idle>>

\* client.user.get raises because the service holds no such user: the bare except
\* takes it.
GetNotFound ==
    /\ setup_pc = "get"
    /\ service_users = 0
    /\ requests' = Append(requests, Request("get", "not_found"))
    /\ setup_pc' = "add"
    /\ UNCHANGED <<service_users, user, calls, main_idle>>

\* client.user.get raises for another reason (no connection, a timeout, a refused
\* key): the bare except takes that too.
GetFails ==
    /\ setup_pc = "get"
    /\ requests' = Append(requests, Request("get", "error"))
    /\ setup_pc' = "add"
    /\ UNCHANGED <<service_users, user, calls, main_idle>>

\* client.user.add creates the user: the success line is printed, user is returned.
AddCreates ==
    /\ setup_pc = "add"
    /\ service_users = 0
    /\ requests' = Append(requests, Request("add", "ok"))
    /\ service_users' = service_users + 1
    /\ user' = Some(project_user_id)
    /\ setup_pc' = "returned"
    /\ UNCHANGED <<calls, main_idle>>

\* client.user.add creates the user and the print of the success line raises: the
\* exception leaves the method, the user created.
AddCreatesPrintRaises ==
    /\ setup_pc = "add"
    /\ service_users = 0
    /\ requests' = Append(requests, Request("add", "ok"))
    /\ service_users' = service_users + 1
    /\ user' = Some(project_user_id)
    /\ setup_pc' = "raised"
    /\ UNCHANGED <<calls, main_idle>>

\* client.user.add is refused, the user being there: the exception leaves the method.
AddRefused ==
    /\ setup_pc = "add"
    /\ service_users > 0
    /\ requests' = Append(requests, Request("add", "exists"))
    /\ setup_pc' = "raised"
    /\ UNCHANGED <<service_users, user, calls, main_idle>>

\* client.user.add fails on the way: the exception leaves the method.
AddFails ==
    /\ setup_pc = "add"
    /\ requests' = Append(requests, Request("add", "error"))
    /\ setup_pc' = "raised"
    /\ UNCHANGED <<service_users, user, calls, main_idle>>

NextZep ==
    \/ CallSetup
    \/ GetReturns \/ GetReturnsPrintRaises \/ GetNotFound \/ GetFails
    \/ AddCreates \/ AddCreatesPrintRaises \/ AddRefused \/ AddFails

SpecZep == InitZep /\ [][NextZep]_vars

(***************************************************************************)
(* Claims about the classifier                                             *)
(***************************************************************************)

\* The rules in their fixed order; the last one matches every identifier.
C1_RuleMatches(k, id) ==
    CASE k = 1 -> StartsWith(id, "AndroidLint")
      [] k = 2 -> id = "Deprecation" \/ id = "GrDeprecatedAPIUsage"
      [] k = 3 -> id = "unused" \/ id = "UnusedAssignment" \/ id = "UnusedReturnValue"
      [] k = 4 -> Contains(id, "Error") \/ Contains(id, "Exception")
      [] k = 5 -> id = "NullableProblems" \/ id = "NotNullFieldNotInitialized"
      [] k = 6 -> StartsWith(id, "Py")
      [] k = 7 -> id = "ShellCheck"
      [] k = 8 -> StartsWith(id, "Html") \/ StartsWith(id, "Xml")
      [] k = 9 -> id = "FieldCanBeLocal" \/ id = "FieldMayBeFinal" \/ id = "CanBeFinal"
      [] k = 10 -> id = "RedundantCast" \/ id = "RedundantSuppression"
                      \/ id = "RedundantVisibilityModifier"
      [] OTHER -> TRUE

C1_RuleResult ==
    << <<"android-lint", "medium">>, <<"deprecation", "medium">>, <<"unused-code", "low">>,
       <<"errors", "high">>, <<"null-safety", "high">>, <<"python", "medium">>,
       <<"shell-scripts", "medium">>, <<"markup", "low">>, <<"code-quality", "low">>,
       <<"redundancy", "low">>, <<"miscellaneous", "low">> >>

C1_MatchingRules(id) == {k \in 1..Len(C1_RuleResult) : C1_RuleMatches(k, id)}

C1_EarliestRule(id) ==
    CHOOSE k \in C1_MatchingRules(id) : \A j \in C1_MatchingRules(id) : k <= j

C1_Example(id, category, priority) ==
    arg = Some(id) => <<ret[1][1], ret[1][2]>> = <<category, priority>>

\* C1: the result of categorize_problem_class is the (category, priority) of the
\* earliest rule, in the fixed order, that the identifier matches, also when it
\* matches several; NullableProblems, AndroidLintUnusedResources, RedundantCast and
\* FooBarBaz give the four pairs the spec names.
C1_FirstMatchWins ==
    ret # None =>
        /\ <<ret[1][1], ret[1][2]>> = C1_RuleResult[C1_EarliestRule(arg[1])]
        /\ C1_Example("NullableProblems", "null-safety", "high")
        /\ C1_Example("AndroidLintUnusedResources", "android-lint", "medium")
        /\ C1_Example("RedundantCast", "redundancy", "low")
        /\ C1_Example("FooBarBaz", "miscellaneous", "low")

\* An identifier that starts with 'Py' and contains 'Exception' has been classified by
\* the earlier of its two rules.
C1_Witness ==
    /\ arg = Some("PyException")
    /\ {4, 6} \subseteq C1_MatchingRules(arg[1])
    /\ ret = Some(<<"errors", "high", 1>>)

C2_Categories ==
    {"android-lint", "deprecation", "unused-code", "errors", "null-safety", "python",
     "shell-scripts", "markup", "code-quality", "redundancy", "miscellaneous"}

\* C2: categorize_problem_class returns for every identifier, the empty one and
\* 'unknown' included; the category is one of the eleven, the priority is high, medium
\* or low, never critical, and the rank the sort gives it is 1, 2 or 3, never 0 or 4.
C2_TotalAndInRange ==
    /\ (arg # None /\ ret = None) => ENABLED Classify
    /\ ret # None =>
        /\ ret[1][1] \in C2_Categories
        /\ ret[1][2] \in {"high", "medium", "low"}
        /\ ret[1][3] \in {1, 2, 3}

\* The empty identifier has been classified.
C2_Witness == arg = Some("") /\ ret = Some(<<"miscellaneous", "low", 3>>)

(***************************************************************************)
(* Claims about the totals of a run                                        *)
(***************************************************************************)

\* C3: when the output is written, total-errors is the number of <error> elements
\* under <errors>.
C3_TotalMatchesEntries ==
    Written =>
        /\ IntOk(output[1].total_errors)
        /\ IntOf(output[1].total_errors) = Len(output[1].errors)

\* An output of three findings from two files has been written.
C3_Witness ==
    /\ Written
    /\ Len(output[1].errors) = 3
    /\ file_count = 2

RECURSIVE C4_Sum(_)
C4_Sum(items) == IF Len(items) = 0 THEN 0 ELSE Head(items)[2] + C4_Sum(Tail(items))

RECURSIVE C4_TextSum(_)
C4_TextSum(entries) ==
    IF Len(entries) = 0 THEN 0 ELSE IntOf(Head(entries).text) + C4_TextSum(Tail(entries))

\* The counts of a field over the finding sequence agree with a tally: each key is
\* listed once, with the number of findings that carry it, and no other key is.
C4_TalliesSequence(counts, field) ==
    /\ \A i, j \in 1..Len(counts) : counts[i][1] = counts[j][1] => i = j
    /\ \A i \in 1..Len(counts) :
        /\ counts[i][2] > 0
        /\ counts[i][2] =
              Cardinality({n \in 1..Len(all_problems) : all_problems[n][field] = counts[i][1]})
    /\ \A n \in 1..Len(all_problems) :
        \E i \in 1..Len(counts) : counts[i][1] = all_problems[n][field]

\* C4: after every processed file, and after the sort, the category, severity and
\* priority tallies are the tallies over the finding sequence, so each of the three
\* sums is the number of findings; in the output the category and the severity
\* summaries each sum to total-errors.
C4_TalliesMatch ==
    /\ C4_TalliesSequence(category_counts, "category")
    /\ C4_TalliesSequence(severity_counts, "severity")
    /\ C4_TalliesSequence(priority_counts, "priority")
    /\ C4_Sum(category_counts) = Len(all_problems)
    /\ C4_Sum(severity_counts) = Len(all_problems)
    /\ C4_Sum(priority_counts) = Len(all_problems)
    /\ Written =>
        /\ C4_TextSum(output[1].category_summary) = IntOf(output[1].total_errors)
        /\ C4_TextSum(output[1].severity_summary) = IntOf(output[1].total_errors)

\* Two files have been processed, the second adds to a count the first began, and the
\* output is written.
C4_Witness ==
    /\ Written
    /\ file_count = 2
    /\ Len(listing[1].doc.problems) > 0
    /\ Len(listing[2].doc.problems) > 0
    /\ \E i \in 1..Len(category_counts) : category_counts[i][2] >= 2
    /\ Len(category_counts) >= 2

(***************************************************************************)
(* Claims about the order and the content of the emitted findings          *)
(***************************************************************************)

\* The .xml entries of the listing, in the order iterated.
XmlEntries == SelectSeq(listing, LAMBDA entry : EndsWith(entry.name, ".xml"))

\* The list parse_inspection_file returns for a file, its print returning.
ListOf(doc) == parse_inspection_file(doc, TRUE)[1]

RECURSIVE Extracted(_)
\* The records of the entries in the order the loop meets them: file by file, in
\* document order.
Extracted(entries) ==
    IF Len(entries) = 0 THEN <<>>
    ELSE ListOf(Head(entries).doc) \o Extracted(Tail(entries))

\* The findings in encounter order.
EncounterOrder == Extracted(XmlEntries)

C5_Rank(priority) ==
    CASE priority = "critical" -> 0
      [] priority = "high" -> 1
      [] priority = "medium" -> 2
      [] priority = "low" -> 3
      [] OTHER -> 4

\* The key of the claim: the file path is the one extracted from the input, which the
\* writer rewrites only afterwards; the line is compared as a number.
C5_Key(p) == <<C5_Rank(p.priority), p.category, p.file, IntOf(p.line)>>

C5_KeyBefore(a, b) ==
    \/ a[1] < b[1]
    \/ a[1] = b[1] /\ StrLess(a[2], b[2])
    \/ a[1] = b[1] /\ a[2] = b[2] /\ StrLess(a[3], b[3])
    \/ a[1] = b[1] /\ a[2] = b[2] /\ a[3] = b[3] /\ a[4] < b[4]

RECURSIVE C5_Keys(_)
C5_Keys(problems) ==
    IF Len(problems) = 0 THEN <<>>
    ELSE <<C5_Key(Head(problems))>> \o C5_Keys(Tail(problems))

RECURSIVE C5_WithKey(_, _, _)
\* The problems whose key is k, in the order of the sequence.
C5_WithKey(problems, keys, k) ==
    IF Len(problems) = 0 THEN <<>>
    ELSE (IF Head(keys) = k THEN <<Head(problems)>> ELSE <<>>)
         \o C5_WithKey(Tail(problems), Tail(keys), k)

\* The key of an emitted <error> element, its file path the one emitted.
C5_EmittedKey(error) ==
    <<C5_Rank(error.priority), error.category, error.file, IntOf(error.line)>>

\* C5 as stated: the emitted <error> elements ascend by (priority rank, category, file
\* path, line as an integer), the file path being the one they carry.
C5_EmittedAscendByKey ==
    Written =>
        \A i, j \in 1..Len(output[1].errors) :
            i < j => ~C5_KeyBefore(C5_EmittedKey(output[1].errors[j]),
                                   C5_EmittedKey(output[1].errors[i]))

\* C5, amended: the <error> elements are emitted in the order of the sorted finding
\* sequence, each with its file path rewritten, and that sequence ascends by (priority
\* rank, category, file path as read from the input, line as an integer); findings
\* with equal keys keep their encounter order; every high finding precedes every medium
\* one and every medium one every low one.
C5_OrderedByKey ==
    Written =>
        LET keys == C5_Keys(all_problems)
            encountered == EncounterOrder
            encountered_keys == C5_Keys(encountered)
        IN  /\ Len(output[1].errors) = Len(all_problems)
            /\ \A i \in 1..Len(all_problems) :
                  /\ output[1].errors[i].priority = all_problems[i].priority
                  /\ output[1].errors[i].category = all_problems[i].category
                  /\ output[1].errors[i].file = CleanPath(all_problems[i].file)
                  /\ output[1].errors[i].line = all_problems[i].line
                  /\ output[1].errors[i].description = all_problems[i].description
            /\ \A i, j \in 1..Len(all_problems) :
                  i < j => ~C5_KeyBefore(keys[j], keys[i])
            /\ \A n \in 1..Len(all_problems) :
                  C5_WithKey(all_problems, keys, keys[n])
                      = C5_WithKey(encountered, encountered_keys, keys[n])
            /\ \A i, j \in 1..Len(all_problems) : i < j => keys[i][1] <= keys[j][1]

\* Line 9 is emitted before line 10, and of the two findings with the key of line 10
\* the one met first, which a sort of the records themselves would put last, comes
\* first; the medium finding of the other file comes after the high ones.
C5_Witness ==
    /\ pc = "done"
    /\ EncounterOrder
          = <<ProblemData(NullableLine10Again), ProblemData(NullableLine10),
              ProblemData(NullableLine9)>>
    /\ all_problems
          = <<ProblemData(NullableLine9), ProblemData(NullableLine10Again),
              ProblemData(NullableLine10)>>
    /\ output[1].errors[1].line = "9\n"

RECURSIVE C6_ParsedElements(_)
\* The <problem> elements of the files among the entries that ET.parse accepts.
C6_ParsedElements(entries) ==
    IF Len(entries) = 0 THEN <<>>
    ELSE (IF Head(entries).doc.wellformed THEN Head(entries).doc.problems ELSE <<>>)
         \o C6_ParsedElements(Tail(entries))

RECURSIVE C6_InputElements(_)
\* The <problem> elements of the inspection reports among the entries: the files that
\* ET.parse accepts and whose root is <problems>.
C6_InputElements(entries) ==
    IF Len(entries) = 0 THEN <<>>
    ELSE (IF Head(entries).doc.wellformed /\ Head(entries).doc.root = "problems"
          THEN Head(entries).doc.problems ELSE <<>>)
         \o C6_InputElements(Tail(entries))

C6_Count(seq, x) == Cardinality({i \in 1..Len(seq) : seq[i] = x})

C6_SameMultiset(a, b) ==
    /\ Len(a) = Len(b)
    /\ \A i \in 1..Len(a) : C6_Count(a, a[i]) = C6_Count(b, a[i])

\* An emitted entry without its position: the id is ERR-<CATEGORY>-<index>.
C6_Content(error) == [error EXCEPT !.id = ""]

\* What is emitted for one <problem> element.
C6_ContentOf(problem) == C6_Content(ErrorElement(<<ProblemData(problem)>>, 1))

RECURSIVE C6_EmittedContents(_)
C6_EmittedContents(errors) ==
    IF Len(errors) = 0 THEN <<>>
    ELSE <<C6_Content(Head(errors))>> \o C6_EmittedContents(Tail(errors))

RECURSIVE C6_ExpectedContents(_)
C6_ExpectedContents(elements) ==
    IF Len(elements) = 0 THEN <<>>
    ELSE <<C6_ContentOf(Head(elements))>> \o C6_ExpectedContents(Tail(elements))

\* C6 as stated: the emitted entries are, as a multiset, the <problem> elements of all
\* the input files that were parsed successfully.
C6_EveryParsedElementEmitted ==
    Written =>
        LET emitted == C6_EmittedContents(output[1].errors)
            expected == C6_ExpectedContents(C6_ParsedElements(XmlEntries))
        IN  C6_SameMultiset(emitted, expected)

\* C6, amended: the emitted entries are, as a multiset, the <problem> children of the
\* root of the parsed files whose root is <problems>, one entry for each element, two
\* for an element that occurs twice.
C6_NothingDroppedOrMerged ==
    Written =>
        LET emitted == C6_EmittedContents(output[1].errors)
            expected == C6_ExpectedContents(C6_InputElements(XmlEntries))
        IN  C6_SameMultiset(emitted, expected)

\* The same element read twice, once from each of two files, is emitted twice.
C6_Witness ==
    /\ Written
    /\ Len(listing) = 2
    /\ listing[1].doc = ReportFile(<<AndroidLine5>>)
    /\ listing[2].doc = ReportFile(<<AndroidLine5, NullableLine9>>)
    /\ Len(XmlEntries) = 2
    /\ Len(output[1].errors) = 3
    /\ C6_Content(output[1].errors[2]) = C6_Content(output[1].errors[3])

C7_Parsable(entry) == entry.doc.wellformed

\* The .xml entries that are left when the unparsable files are taken away.
C7_WithoutBadFiles == SelectSeq(XmlEntries, C7_Parsable)

\* C7 as stated: the records collected are those of the listing with its unparsable
\* files taken out, an unparsable file having added no record and having been counted
\* as the loop went on to the next entry; and no unparsable file ends the run.
C7_FailureIsolation ==
    /\ pc = "scan" => all_problems = Extracted(C7_WithoutBadFiles)
    /\ pc = "scan" => file_count = Len(XmlEntries)
    /\ pc # "parse_raised"

C8_MissingText == {"file", "module", "package", "description", "highlighted_element"}

C8_Defaults(language_default) ==
    ret # None =>
        LET problem == arg[1]
            record == ret[1]
        IN  /\ \A field \in C8_MissingText : problem[field] = None => record[field] = ""
            /\ problem.language = None => record.language = language_default
            /\ \A field \in {"line", "column"} :
                  problem[field] = None => IntOk(record[field]) /\ IntOf(record[field]) = 0
            /\ problem.problem_class = None =>
                  /\ record.severity = "WARNING"
                  /\ categorize_problem_class(record.problem_class_id)
                        = <<"miscellaneous", "low">>
                  /\ <<record.category, record.priority>> = <<"miscellaneous", "low">>
            /\ IntOk(record.line) /\ IntOk(record.column)

\* C8 as stated: also a missing language gives the empty string.
C8_AsStated == C8_Defaults("")

\* C8, amended: a missing file, module, package, description or highlighted element
\* gives the empty string and a missing language gives 'UNKNOWN'; a missing line or
\* column gives the integer 0; without a problem_class element the severity is WARNING
\* and the identifier classifies to (miscellaneous, low); a missing field is never an
\* error.
C8_DefaultsWithUnknownLanguage == C8_Defaults("UNKNOWN")

\* A <problem> element with no child at all has been extracted.
C8_Witness ==
    /\ arg # None
    /\ \A field \in DOMAIN arg[1] : arg[1][field] = None
    /\ ret # None
    /\ ret[1].language = "UNKNOWN"
    /\ ret[1].file = ""
    /\ ret[1].line = "0"

\* C9: the id of the i-th emitted finding is ERR-, its category in upper case, a
\* hyphen and the decimal number i - 1, its position in the sorted sequence; so the ids
\* of a report are pairwise distinct and the indices run from 0 without gaps.
C9_IdsFollowSortOrder ==
    Written =>
        LET errors == output[1].errors
        IN  /\ \A i \in 1..Len(errors) :
                  LET prefix == "ERR-" \o Upper(errors[i].category) \o "-"
                      index == SubSeq(errors[i].id, Len(prefix) + 1, Len(errors[i].id))
                  IN  /\ StartsWith(errors[i].id, prefix)
                      /\ \A n \in 1..Len(index) : IsDigit(CharAt(index, n))
                      /\ IntOk(index)
                      /\ IntOf(index) = i - 1
                      /\ errors[i].category = all_problems[i].category
            /\ \A i, j \in 1..Len(errors) : errors[i].id = errors[j].id => i = j

\* Three findings of two categories are emitted: the first of the second category has
\* index 2, where a counter for each category would give 0.
C9_Witness ==
    /\ Written
    /\ Len(output[1].errors) = 3
    /\ output[1].errors[1].id = "ERR-NULL-SAFETY-0000"
    /\ output[1].errors[2].id = "ERR-NULL-SAFETY-0001"
    /\ output[1].errors[3].id = "ERR-ANDROID-LINT-0002"

\* C10 as stated: no emitted path contains a backslash or the placeholder
\* 'file://$USER_HOME$/', and a path with neither is emitted as it is.
C10_NoBackslashNoPlaceholder ==
    ret # None =>
        /\ ~Contains(ret[1], "\\")
        /\ ~Contains(ret[1], "file://$USER_HOME$/")
        /\ (~Contains(arg[1], "\\") /\ ~Contains(arg[1], "file://$USER_HOME$/"))
              => ret[1] = arg[1]

(***************************************************************************)
(* Claims about the sort alone                                             *)
(***************************************************************************)

\* C11: the sort applied to a list that is the result of the sort returns that list,
\* element for element, findings with equal keys in the order they had.
C11_SortIdempotent ==
    (ret # None /\ Len(ret[1]) = 2) => ret[1][2] = ret[1][1]

\* A list of three that the first sort had to reorder, with two findings of equal key
\* that differ, has been sorted a second time.
C11_Witness ==
    /\ ret # None
    /\ Len(ret[1]) = 2
    /\ arg[1] = <<ProblemData(NullableLine10Again), ProblemData(NullableLine10),
                  ProblemData(NullableLine9)>>
    /\ ret[1][1] = <<ProblemData(NullableLine9), ProblemData(NullableLine10Again),
                     ProblemData(NullableLine10)>>
    /\ ret[1][1] # arg[1]

(***************************************************************************)
(* Claims about the run of main as a whole                                 *)
(***************************************************************************)

\* C12 as stated: a run that is not stopped from outside and whose output path can be
\* written ends with the output written, whatever the findings hold; no text of a
\* finding ends the run after extraction.  So main has no next statement only when
\* it has returned with the output written, when the write itself has failed, when
\* the directory could not be listed and no input file was discovered, or when the
\* standard output has failed under a print.
C12_RunCompletes ==
    \/ Running
    \/ pc = "listdir_raised"
    \/ pc = "write_raised"
    \/ pc = "parse_raised"
    \/ (pc = "summary_raised" /\ Written)
    \/ (pc = "done" /\ Written)

\* What one step does to the input files: a file is opened only when none is open,
\* and it is the next entry of the listing; the step that closes it has read it whole
\* and is the one step that takes its records; an entry of another name is passed over
\* unopened; the loop goes through the listing entry by entry, never back.
C13_OneFileAtATime ==
    /\ names' # names => pc = "start" /\ listing = <<>>
    /\ opened' # opened =>
          \/ /\ opened = None
             /\ pc = "scan"
             /\ Len(listing) < Len(names)
             /\ opened' = Some(names[Len(listing) + 1])
             /\ listing' = listing
          \/ /\ opened # None
             /\ opened' = None
             /\ listing' = Append(listing, listing'[Len(listing')])
             /\ listing'[Len(listing')].name = opened[1]
    /\ listing' # listing =>
          /\ pc = "scan"
          /\ Len(listing') = Len(listing) + 1
          /\ SubSeq(listing', 1, Len(listing)) = listing
          /\ LET entry == listing'[Len(listing')]
             IN  /\ entry.name = names[Len(listing')]
                 /\ IF EndsWith(entry.name, ".xml")
                    THEN /\ opened' = None
                         /\ IF entry.doc = Unopenable
                            THEN opened = None
                            ELSE opened = Some(entry.name)
                         /\ \/ /\ pc' = "scan"
                               /\ file_count' = file_count + 1
                               /\ all_problems' = all_problems \o ListOf(entry.doc)
                            \/ /\ pc' = "parse_raised"
                               /\ file_count' = file_count
                               /\ all_problems' = all_problems
                    ELSE /\ opened = None /\ opened' = None
                         /\ pc' = "scan"
                         /\ file_count' = file_count
                         /\ all_problems' = all_problems
    /\ listing' = listing =>
          /\ file_count' = file_count
          /\ all_problems' = all_problems \/ (pc = "scan" /\ pc' = "write")

\* What one step does to the output: the sort follows the last entry of the listing,
\* no file open; the output is written once, by the step that follows the sort; and
\* the summary is printed by the step that follows the write.
C13_WriteThenReport ==
    /\ pc' = "write" =>
          /\ pc = "scan"
          /\ opened = None
          /\ Len(listing) = Len(names)
          /\ \A n \in 1..Len(names) : listing[n].name = names[n]
          /\ listing' = listing
          /\ all_problems' = SortedProblems(all_problems)
    /\ output' # output =>
          /\ pc = "write"
          /\ output = None /\ output' # None
          /\ pc' = "print" \/ (pc' = "write_raised" /\ ~Written')
          /\ all_problems' = all_problems
    /\ pc' = "print" => pc = "write" /\ Written'
    /\ pc' = "done" => pc = "print" /\ output' = output /\ Written
    /\ pc' = "summary_raised" => pc = "print" /\ output' = output /\ Written
    /\ pc # "scan" => listing' = listing /\ all_problems' = all_problems /\ opened' = None

\* Every .xml entry the loop goes through has been opened: the step that takes the
\* entry closes the file of its name.
C13_EveryXmlEntryOpened ==
    listing' # listing =>
        LET entry == listing'[Len(listing')]
        IN  EndsWith(entry.name, ".xml") => opened = Some(entry.name)

\* among the findings and no other, each with a count of at least 1, and the names of
\* its children ascend strictly.
C14_SummariesAreMappings ==
    Written =>
        LET severities == output[1].severity_summary
            categories == output[1].category_summary
            errors == output[1].errors
        IN  /\ \A i, j \in 1..Len(severities) :
                  severities[i].tag = severities[j].tag => i = j
            /\ \A i \in 1..Len(errors) :
                  \E n \in 1..Len(categories) : categories[n].name = errors[i].category
            /\ \A n \in 1..Len(categories) :
                  /\ \E i \in 1..Len(errors) : errors[i].category = categories[n].name
                  /\ IntOk(categories[n].text)
                  /\ IntOf(categories[n].text) >= 1
            /\ \A n \in 1..(Len(categories) - 1) :
                  StrLess(categories[n].name, categories[n + 1].name)

\* Whether a name ends in '.xml'.
C16_IsXmlName(name) == Len(name) >= 4 /\ SubSeq(name, Len(name) - 3, Len(name)) = ".xml"

\* The number of entries of the listing whose name ends in '.xml'.
C16_XmlCount == Cardinality({n \in 1..Len(listing) : C16_IsXmlName(listing[n].name)})

RECURSIVE C16_ElementsRead(_)
\* The number of <problem> elements in the reports among the '.xml' entries.
C16_ElementsRead(entries) ==
    IF Len(entries) = 0 THEN 0
    ELSE (IF /\ C16_IsXmlName(Head(entries).name)
             /\ Head(entries).doc.wellformed
             /\ Head(entries).doc.root = "problems"
          THEN Len(Head(entries).doc.problems) ELSE 0)
         + C16_ElementsRead(Tail(entries))

\* C16 as stated: the file count is the number of entries read so far whose name ends
\* in '.xml', whatever their parse gave, and files-analyzed is its text; the entries
\* of any other name add no finding and no count; and a file that could not be parsed
\* never ends the run: a run that has returned has written its output.
C16_FilesAnalyzed ==
    /\ pc # "parse_raised" => file_count = C16_XmlCount
    /\ Len(all_problems) = C16_ElementsRead(listing)
    /\ Written =>
          /\ IntOk(output[1].files_analyzed)
          /\ IntOf(output[1].files_analyzed) = C16_XmlCount
    /\ pc = "done" => Written
    /\ pc # "parse_raised"

(***************************************************************************)
(* Claims about categories and priorities                                  *)
(***************************************************************************)

\* The pairs the classifier returns over the identifiers.
C15_Pairs == {categorize_problem_class(id) : id \in Identifiers}

C15_PriorityOfCategory == \A p, q \in C15_Pairs : p[1] = q[1] => p[2] = q[2]

C15_OneBlockPerCategory(problems) ==
    /\ \A i, j \in 1..Len(problems) :
          problems[i].category = problems[j].category
              => problems[i].priority = problems[j].priority
    /\ \A i, j, k \in 1..Len(problems) :
          (i < k /\ k < j /\ problems[i].category = problems[j].category)
              => problems[k].category = problems[i].category

\* C15: the classifier gives every category one priority, so any two findings of one
\* category have the same priority, and in a sorted list the findings of one category
\* stand together, no finding of another category between two of them.
C15_CategoryBlocks ==
    /\ C15_PriorityOfCategory
    /\ ret # None => \A n \in 1..Len(ret[1]) : C15_OneBlockPerCategory(ret[1][n])

\* A finding of category errors stood between two null-safety findings of the same
\* priority, its file between theirs; the sort has put it before both.
C15_Witness ==
    /\ ret # None
    /\ arg[1] = <<ProblemData(NullableOtherFile), ProblemData(ErrorMidFile),
                  ProblemData(NullableLine10)>>
    /\ ret[1][1] = <<ProblemData(ErrorMidFile), ProblemData(NullableOtherFile),
                     ProblemData(NullableLine10)>>
    /\ ret[1][1][1].priority = ret[1][1][2].priority

(***************************************************************************)
(* Claims about setup_project_user                                         *)
(***************************************************************************)

C17_Adds(call) == {n \in 1..Len(requests) : requests[n].call = call /\ requests[n].op = "add"}

\* C17 as stated: a call whose get found the user sends no add; an add is sent only
\* when the user is not there, whatever made the get fail, and at most once in a call;
\* when a call has returned the service holds exactly one project user, the one
\* returned.
C17_CreateOrGet ==
    /\ \A n \in 1..Len(requests) :
          (requests[n].op = "get" /\ requests[n].outcome = "ok")
              => C17_Adds(requests[n].call) = {}
    /\ \A n \in 1..Len(requests) : requests[n].op = "add" => ~requests[n].existed
    /\ \A call \in 1..calls : Cardinality(C17_Adds(call)) <= 1
    /\ setup_pc = "returned" => service_users = 1 /\ user = Some(project_user_id)

====
